---- MODULE Spec2Model ----
(***************************************************************************)
(* State-machine model of the configuration research system:               *)
(*   - the research orchestrator (agents/config_research_agent.py),        *)
(*   - the bulk link validator (validators/link_validator.py),             *)
(*   - the WebSocket broadcast of the integration layer                    *)
(*     (src/integration/cursor_integration.py),                            *)
(*   - the dashboard HTTP API (dashboard/app.py),                          *)
(*   - the validation history (utils/validation_engine.py),                *)
(*   - the troubleshooting cases and advisor (agents/troubleshooting_ai.py),*)
(*   - the start-up manager, terminal launcher and desktop GUI             *)
(*     (start_system.py, simple_launcher.py, gui_app.py),                  *)
(*   - the link crawler (utils/link_analyzer.py),                          *)
(*   - the security validation (validators/config_validator.py),           *)
(*   - the comprehensive summary, `command` rules and file uploads.        *)
(* Each component has its own specification over the shared variables; the *)
(* variables of the other components stay at their initial values.         *)
(***************************************************************************)
EXTENDS Integers, Sequences, FiniteSets, TLC

VARIABLES
    tasks,        \* ConfigResearchAgent.tasks: task_id -> ResearchTask
    results,      \* ConfigResearchAgent.results: task_id -> ResearchResult
    execs,        \* running/finished execute_research_task coroutines
    session,      \* LinkValidator.session: "none", "open" or "closed"
    call,         \* the validate_links call in progress
    calls_made,   \* validate_links calls completed on this validator
    last_result,  \* what the last validate_links call returned
    websocket_connections,  \* CursorIntegration.websocket_connections
    peer_gone,    \* sockets whose client has gone away: sending to them fails
    ws_opened,    \* WebSocket connections accepted so far
    bcast,        \* the _broadcast_update call of the /research request
    research_response,  \* what the last /research request answered
    requests_made,  \* /research requests answered so far
    troubleshooting_cases,  \* TroubleshootingAI.troubleshooting_cases
    api_response, \* what the dashboard answered to the last request
    validation_history,  \* ValidationEngine.validation_history
    history_reply, \* what the last get_validation_history call returned
    knowledge_base,  \* TroubleshootingAI.knowledge_base: entry_id -> entry
    recommendations, \* TroubleshootingAI.recommendations, in creation order
    generated,    \* what the last generate_recommendations call returned
    kb_file,      \* the file written by save_knowledge_base
    loads,        \* load_knowledge_base calls that returned
    manager,      \* SystemManager: where run() is, running, how it ended
    processes,    \* SystemManager.processes: the children it supervises
    children,     \* the state of every child process spawned so far
    launcher,     \* SimpleLauncher.run(): where it is and what it returned
    server_process,  \* the state of SimpleLauncher.server_process
    gui,          \* the desktop GUI: pending polls, attempts, server_running
    gui_server,   \* what the server started by the GUI answers
    crawl,        \* the crawl_links call: its local sets and results
    crawl_verdict, \* what the last _should_crawl_link call returned
    security,     \* the security sub-reports of two configuration documents
    summary,      \* the last comprehensive summary and the results it is of
    command_rule, \* the `command` rule being executed, and its last result
    temp_dir,     \* the temporary files that exist
    written,      \* the paths the upload endpoints wrote, in order
    uuids         \* the number of uuid4 values drawn

researchVars == <<tasks, results, execs>>
linkVars == <<session, call, calls_made, last_result>>
wsVars == <<websocket_connections, peer_gone, ws_opened, bcast,
            research_response, requests_made>>

caseVars == <<troubleshooting_cases>>
dashVars == <<api_response>>
historyVars == <<validation_history, history_reply>>
advisorVars == <<knowledge_base, recommendations, generated, kb_file, loads>>
managerVars == <<manager, processes, children>>
launcherVars == <<launcher, server_process>>
guiVars == <<gui, gui_server>>
crawlVars == <<crawl, crawl_verdict>>
validatorVars == <<security>>
summaryVars == <<summary>>
commandVars == <<command_rule, temp_dir>>
uploadVars == <<written, uuids>>

\* What the actions of one component leave alone: the other components.
notResearch == <<linkVars, wsVars, caseVars, dashVars, historyVars,
                 advisorVars, managerVars, launcherVars, guiVars, crawlVars,
                 validatorVars, summaryVars, commandVars, uploadVars>>
notLink == <<researchVars, wsVars, caseVars, dashVars, historyVars,
             advisorVars, managerVars, launcherVars, guiVars, crawlVars,
             validatorVars, summaryVars, commandVars, uploadVars>>
notWs == <<researchVars, linkVars, caseVars, dashVars, historyVars,
           advisorVars, managerVars, launcherVars, guiVars, crawlVars,
           validatorVars, summaryVars, commandVars, uploadVars>>
notCase == <<researchVars, linkVars, wsVars, dashVars, historyVars,
             advisorVars, managerVars, launcherVars, guiVars, crawlVars,
             validatorVars, summaryVars, commandVars, uploadVars>>
notHistory == <<researchVars, linkVars, wsVars, caseVars, dashVars,
                advisorVars, managerVars, launcherVars, guiVars, crawlVars,
                validatorVars, summaryVars, commandVars, uploadVars>>
notAdvisor == <<researchVars, linkVars, wsVars, dashVars, historyVars,
                managerVars, launcherVars, guiVars, crawlVars, validatorVars,
                summaryVars, commandVars, uploadVars>>
notDash == <<linkVars, wsVars, historyVars, advisorVars, managerVars,
             launcherVars, guiVars, crawlVars, validatorVars, summaryVars,
             commandVars, uploadVars>>
notManager == <<researchVars, linkVars, wsVars, caseVars, dashVars,
                historyVars, advisorVars, launcherVars, guiVars, crawlVars,
                validatorVars, summaryVars, commandVars, uploadVars>>
notLauncher == <<researchVars, linkVars, wsVars, caseVars, dashVars,
                 historyVars, advisorVars, managerVars, guiVars, crawlVars,
                 validatorVars, summaryVars, commandVars, uploadVars>>
notGui == <<researchVars, linkVars, wsVars, caseVars, dashVars, historyVars,
            advisorVars, managerVars, launcherVars, crawlVars, validatorVars,
            summaryVars, commandVars, uploadVars>>
notCrawl == <<researchVars, linkVars, wsVars, caseVars, dashVars,
              historyVars, advisorVars, managerVars, launcherVars, guiVars,
              validatorVars, summaryVars, commandVars, uploadVars>>
notValidator == <<researchVars, linkVars, wsVars, caseVars, dashVars,
                  historyVars, advisorVars, managerVars, launcherVars,
                  guiVars, crawlVars, summaryVars, commandVars, uploadVars>>
notSummary == <<researchVars, linkVars, wsVars, caseVars, dashVars,
                historyVars, advisorVars, managerVars, launcherVars, guiVars,
                crawlVars, validatorVars, commandVars, uploadVars>>
notCommand == <<researchVars, linkVars, wsVars, caseVars, dashVars,
                historyVars, advisorVars, managerVars, launcherVars, guiVars,
                crawlVars, validatorVars, summaryVars, uploadVars>>
notUpload == <<researchVars, linkVars, wsVars, caseVars, dashVars,
               historyVars, advisorVars, managerVars, launcherVars, guiVars,
               crawlVars, validatorVars, summaryVars, commandVars>>

vars == <<researchVars, linkVars, wsVars, caseVars, dashVars, historyVars,
          advisorVars, managerVars, launcherVars, guiVars, crawlVars,
          validatorVars, summaryVars, commandVars, uploadVars>>

(***************************************************************************)
(* Bounds                                                                  *)
(***************************************************************************)
MaxTasks == 1
MaxExecs == 2
MaxLinks == 3
MaxCalls == 2
MaxSockets == 3
MaxRequests == 2
MaxCases == 2
MaxHistory == 2
NumRules == 2
MaxErrors == 2
MaxRecommendations == 2
MaxLoads == 2
MaxSpawns == 18
MaxStarts == 2
MaxPolls == 5
MaxPages == 3
MaxExcelFiles == 2
MaxSheets == 2
MaxIssues == 2
MaxCommandRuns == 5
MaxUploads == 3

TaskIds == 1..MaxTasks
ExecIds == 1..MaxExecs

(***************************************************************************)
(* Research orchestrator: inputs                                           *)
(***************************************************************************)
\* A file-list argument: a Python list (iterable) of paths, or a truthy value
\* that is not iterable (create_research_task stores `excel_files or []`).
FileList(items) == [iterable |-> TRUE, items |-> items]
NotAList == [iterable |-> FALSE, items |-> <<>>]

\* Spreadsheet paths: "plain" a readable workbook without rule columns,
\* "rules" a readable workbook with a `required`/`format` column,
\* "missing" a path that does not exist, "corrupt" a file the reader rejects.
\* PDF paths: "ok", "missing", "corrupt".  Links: "valid", "invalid".
Bundles ==
    { [excel_files |-> FileList(<<"plain">>), pdf_files |-> FileList(<<"ok">>),
       links |-> FileList(<<"valid">>)],
      [excel_files |-> FileList(<<"missing">>), pdf_files |-> FileList(<<"ok">>),
       links |-> FileList(<<"valid", "invalid">>)],
      [excel_files |-> FileList(<<"plain">>),
       pdf_files |-> FileList(<<"ok", "missing">>), links |-> FileList(<<>>)],
      [excel_files |-> FileList(<<"corrupt", "plain">>),
       pdf_files |-> FileList(<<"corrupt">>), links |-> NotAList],
      [excel_files |-> NotAList, pdf_files |-> FileList(<<"ok">>),
       links |-> FileList(<<"valid">>)],
      [excel_files |-> FileList(<<"rules">>), pdf_files |-> FileList(<<"missing">>),
       links |-> FileList(<<"valid">>)],
      [excel_files |-> FileList(<<"rules", "missing">>), pdf_files |-> NotAList,
       links |-> FileList(<<>>)] }

Sources == {"excel", "pdf", "links"}

(***************************************************************************)
(* Research orchestrator: the three source-processing coroutines           *)
(***************************************************************************)
\* A slot of the fan-out: state "pending" (coroutine not finished), "raised"
\* (an exception object) or "done" (a dict, described by its keys, its
\* `errors` list, whether it carries derived validation rules, and counters).
PendingSlot ==
    [state |-> "pending", keys |-> {}, errors |-> <<>>, rules |-> FALSE,
     processed |-> 0, valid |-> 0]

RaisedSlot ==
    [state |-> "raised", keys |-> {}, errors |-> <<>>, rules |-> FALSE,
     processed |-> 0, valid |-> 0]

MessageSlot ==
    [state |-> "done", keys |-> {"message"}, errors |-> <<>>, rules |-> FALSE,
     processed |-> 0, valid |-> 0]

ExcelKeys == {"files_processed", "configurations", "validation_rules", "errors"}
PdfKeys == {"files_processed", "documents", "error_patterns",
            "troubleshooting_steps", "configuration_snippets", "errors"}
LinkKeys == {"links_processed", "valid_links", "link_info",
             "domain_statistics", "errors"}

\* The key under which a source records a path that does not exist.
FileNotFoundEntry == "File not found"
ProcessingErrorEntry == "Error processing"

\* The loop of _process_excel_files / _process_pdf_files over the paths.
RECURSIVE FileLoop(_, _)
FileLoop(items, acc) ==
    IF items = <<>> THEN acc
    ELSE LET f == Head(items)
             next ==
                 IF f = "missing"
                 THEN [acc EXCEPT !.errors = Append(@, FileNotFoundEntry)]
                 ELSE IF f = "corrupt"
                 THEN [acc EXCEPT !.errors = Append(@, ProcessingErrorEntry)]
                 ELSE [acc EXCEPT !.processed = @ + 1,
                                  !.rules = @ \/ (f = "rules")]
         IN FileLoop(Tail(items), next)

\* A variant that lets the missing path escape as FileNotFoundError.
ProcessExcelRaisingOnMissing(files) ==
    IF files.iterable /\ files.items = <<>> THEN MessageSlot
    ELSE IF ~files.iterable THEN RaisedSlot
    ELSE IF \E i \in DOMAIN files.items : files.items[i] = "missing"
    THEN RaisedSlot
    ELSE FileLoop(files.items,
                  [state |-> "done", keys |-> ExcelKeys, errors |-> <<>>,
                   rules |-> FALSE, processed |-> 0, valid |-> 0])

_process_excel_files(files) ==
    IF files.iterable /\ files.items = <<>> THEN MessageSlot
    ELSE IF ~files.iterable THEN RaisedSlot
    ELSE FileLoop(files.items,
                  [state |-> "done", keys |-> ExcelKeys, errors |-> <<>>,
                   rules |-> FALSE, processed |-> 0, valid |-> 0])

_process_pdf_files(files) ==
    IF files.iterable /\ files.items = <<>> THEN MessageSlot
    ELSE IF ~files.iterable THEN RaisedSlot
    ELSE FileLoop(files.items,
                  [state |-> "done", keys |-> PdfKeys, errors |-> <<>>,
                   rules |-> FALSE, processed |-> 0, valid |-> 0])

RECURSIVE CountValid(_)
CountValid(items) ==
    IF items = <<>> THEN 0
    ELSE (IF Head(items) = "valid" THEN 1 ELSE 0) + CountValid(Tail(items))

\* _process_links wraps the whole analysis in one try/except: a failure of
\* analyze_links is appended to `errors`, never raised.
_process_links(links) ==
    IF links.iterable /\ links.items = <<>> THEN MessageSlot
    ELSE IF ~links.iterable
    THEN [state |-> "done", keys |-> LinkKeys,
          errors |-> <<ProcessingErrorEntry>>, rules |-> FALSE,
          processed |-> 0, valid |-> 0]
    ELSE [state |-> "done", keys |-> LinkKeys, errors |-> <<>>,
          rules |-> FALSE, processed |-> Len(links.items),
          valid |-> CountValid(links.items)]

ProcessSource(s, task) ==
    IF s = "excel" THEN _process_excel_files(task.excel_files)
    ELSE IF s = "pdf" THEN _process_pdf_files(task.pdf_files)
    ELSE _process_links(task.links)

(***************************************************************************)
(* Research orchestrator: state                                            *)
(***************************************************************************)
Extend(f, k, v) == [x \in DOMAIN f \cup {k} |-> IF x = k THEN v ELSE f[x]]

IdleExec ==
    [pc |-> "idle", task_id |-> 0, raised_in |-> "none",
     slots |-> [s \in Sources |-> PendingSlot]]

ResearchInit ==
    /\ tasks = <<>>
    /\ results = <<>>
    /\ execs = [e \in ExecIds |-> IdleExec]

\* uuid4(): an identifier no existing task has.
NewTaskId == Len(tasks) + 1

\* create_research_task: a new task in status "pending".
create_research_task(b) ==
    /\ Len(tasks) < MaxTasks
    /\ tasks' = Append(tasks,
                       [task_id |-> NewTaskId,
                        excel_files |-> b.excel_files,
                        pdf_files |-> b.pdf_files,
                        links |-> b.links,
                        status |-> "pending",
                        has_results |-> FALSE,
                        error_message |-> FALSE])
    /\ UNCHANGED <<results, execs, notResearch>>

\* execute_research_task up to the gather: the lookup and `status = "running"`.
\* Coroutines are anonymous: a new call takes the lowest unused record.
ExecuteStart(e, tid) ==
    /\ execs[e].pc = "idle"
    /\ \A f \in ExecIds : f < e => execs[f].pc # "idle"
    /\ IF tid \notin DOMAIN tasks
       THEN /\ execs' = [execs EXCEPT ![e].pc = "raised", ![e].task_id = tid,
                                      ![e].raised_in = "lookup"]
            /\ UNCHANGED tasks
       ELSE /\ tasks' = [tasks EXCEPT ![tid].status = "running"]
            /\ execs' = [execs EXCEPT ![e].pc = "gather", ![e].task_id = tid]
    /\ UNCHANGED <<results, notResearch>>

\* One of the three gathered coroutines runs to its end.
SourceFinish(e, s) ==
    /\ execs[e].pc = "gather"
    /\ execs[e].slots[s].state = "pending"
    /\ execs' = [execs EXCEPT
                   ![e].slots[s] = ProcessSource(s, tasks[execs[e].task_id])]
    /\ UNCHANGED <<tasks, results, notResearch>>

\* asyncio.gather(..., return_exceptions=True)
ReturnExceptionsOff == FALSE
ReturnExceptions == TRUE

\* gather completes when every awaited coroutine has finished.
GatherReadyFirstCompleted(slots) == \E s \in Sources : slots[s].state # "pending"
GatherReady(slots) == \A s \in Sources : slots[s].state # "pending"

\* `if isinstance(x, Exception): x = {"error": str(x)}`
HandleException(slot) ==
    IF slot.state = "raised"
    THEN [slot EXCEPT !.state = "done", !.keys = {"error"}]
    ELSE slot

\* The `except Exception` handler of execute_research_task.
MarkFailedLeavesRunning(tid) == tasks
MarkFailed(tid) ==
    [tasks EXCEPT ![tid].status = "failed", ![tid].error_message = TRUE]

\* The gather returns and the three results are unpacked (lines 143-156).
GatherJoin(e) ==
    /\ execs[e].pc = "gather"
    /\ GatherReady(execs[e].slots)
    /\ IF ~ReturnExceptions /\ \E s \in Sources : execs[e].slots[s].state = "raised"
       THEN /\ tasks' = MarkFailed(execs[e].task_id)
            /\ execs' = [execs EXCEPT ![e].pc = "raised",
                                      ![e].raised_in = "gather"]
       ELSE /\ execs' = [execs EXCEPT
                           ![e].pc = "validate",
                           ![e].slots = [s \in Sources |->
                                           HandleException(execs[e].slots[s])]]
            /\ UNCHANGED tasks
    /\ UNCHANGED <<results, notResearch>>

\* _perform_validation hands the row list of a sheet that has derived rules to
\* ExcelProcessor.validate_configuration, which calls .get on it: AttributeError.
ValidationRaises(slots) ==
    /\ "configurations" \in slots["excel"].keys
    /\ slots["excel"].rules

\* _perform_validation (and its cross-reference pass), lines 159-161.
PerformValidation(e) ==
    /\ execs[e].pc = "validate"
    /\ IF ValidationRaises(execs[e].slots)
       THEN /\ tasks' = MarkFailed(execs[e].task_id)
            /\ execs' = [execs EXCEPT ![e].pc = "raised",
                                      ![e].raised_in = "validation"]
       ELSE /\ execs' = [execs EXCEPT ![e].pc = "synthesize"]
            /\ UNCHANGED tasks
    /\ UNCHANGED <<results, notResearch>>

\* Overall validation status: "failed" below a link validity rate of 0.8.
OverallStatus(slots) ==
    LET l == slots["links"]
        rate_below == IF l.processed > 0 THEN 10 * l.valid < 8 * l.processed
                      ELSE TRUE
    IN IF "link_info" \in l.keys /\ rate_below THEN "failed" ELSE "passed"

\* _create_error_summary: total of the per-source `errors` lists.
TotalErrors(slots) ==
    Len(slots["excel"].errors) + Len(slots["pdf"].errors)
        + Len(slots["links"].errors)

MakeResult(tid, slots) ==
    [task_id |-> tid,
     excel_results |-> slots["excel"],
     pdf_results |-> slots["pdf"],
     link_results |-> slots["links"],
     overall_status |-> OverallStatus(slots),
     total_errors |-> TotalErrors(slots)]

\* `self.results[task_id] = result`
StoreResultDropped(res, tid, r) == res
StoreResult(res, tid, r) == Extend(res, tid, r)

\* `task.status = "completed"`
CompletedTask(task) == [task EXCEPT !.status = "completed", !.has_results = TRUE]

\* Suggestions, recommendations, error summary, result, and the return
\* (lines 164-201): no step of it raises on the data the sources produce.
Finish(e) ==
    /\ execs[e].pc = "synthesize"
    /\ LET tid == execs[e].task_id
       IN /\ results' = StoreResult(results, tid, MakeResult(tid, execs[e].slots))
          /\ tasks' = [tasks EXCEPT ![tid] = CompletedTask(tasks[tid])]
    /\ execs' = [execs EXCEPT ![e].pc = "returned"]
    /\ UNCHANGED notResearch

ResearchNext ==
    \/ \E b \in Bundles : create_research_task(b)
    \/ \E e \in ExecIds, tid \in TaskIds : ExecuteStart(e, tid)
    \/ \E e \in ExecIds, s \in Sources : SourceFinish(e, s)
    \/ \E e \in ExecIds : GatherJoin(e)
    \/ \E e \in ExecIds : PerformValidation(e)
    \/ \E e \in ExecIds : Finish(e)

(***************************************************************************)
(* Bulk link validator                                                     *)
(***************************************************************************)
\* LinkValidator(max_concurrent=...): the concurrency limit N.
max_concurrent == 2

\* A link is "wellformed" (an http/https URL) or "malformed".
UrlKinds == {"wellformed", "malformed"}

LinkLists == UNION {[1..n -> UrlKinds] : n \in 0..MaxLinks}

_is_valid_url_format(kind) == kind = "wellformed"

NoResult ==
    [returned |-> FALSE,
     summary |-> [total_links |-> 0, successful |-> 0, failed |-> 0],
     successful_validations |-> <<>>,
     failed_validations |-> <<>>]

IdleCall ==
    [pc |-> "idle", links |-> <<>>, owns_session |-> FALSE, semaphore |-> 0,
     reqs |-> <<>>, invalid_urls |-> <<>>]

LinkInit ==
    /\ session = "none"
    /\ call = IdleCall
    /\ calls_made = 0
    /\ last_result = NoResult

\* Positions of `links` that pass / fail the format check, in order.
RECURSIVE FilterLinks(_, _, _)
FilterLinks(links, i, wanted) ==
    IF i > Len(links) THEN <<>>
    ELSE (IF _is_valid_url_format(links[i]) = wanted THEN <<i>> ELSE <<>>)
             \o FilterLinks(links, i + 1, wanted)

\* validate_links up to the gather: the session is opened when there is none
\* (`if not self.session: async with self`), the links are split by format, the
\* semaphore is created and one coroutine per well-formed URL is started.
ValidateLinksStart(links) ==
    /\ call.pc = "idle"
    /\ calls_made < MaxCalls
    /\ session' = IF session = "none" THEN "open" ELSE session
    /\ LET valid_urls == FilterLinks(links, 1, TRUE)
           bad == FilterLinks(links, 1, FALSE)
       IN call' = [pc |-> "gather",
                   links |-> links,
                   owns_session |-> (session = "none"),
                   semaphore |-> max_concurrent,
                   reqs |-> [j \in 1..Len(valid_urls) |->
                               [url |-> valid_urls[j], state |-> "waiting",
                                status |-> "none"]],
                   invalid_urls |-> [j \in 1..Len(bad) |->
                               [url |-> bad[j], status |-> "invalid_format"]]]
    /\ last_result' = NoResult
    /\ UNCHANGED <<calls_made, notLink>>

\* `async with semaphore`: entered only while the semaphore's value is positive.
CanAcquireAlways(sem) == TRUE
CanAcquire(sem) == sem > 0

SemAcquire(j) ==
    /\ call.pc = "gather"
    /\ j \in DOMAIN call.reqs
    /\ call.reqs[j].state = "waiting"
    /\ CanAcquire(call.semaphore)
    /\ call' = [call EXCEPT !.semaphore = @ - 1, !.reqs[j].state = "inflight"]
    /\ UNCHANGED <<session, calls_made, last_result, notLink>>

\* What _validate_single_link can return for a request: on an open session the
\* classification of the response or a timeout; on a closed session
\* session.get raises and the generic handler reports "error".
Outcomes(sess) ==
    IF sess = "open"
    THEN {"success", "redirect", "client_error", "timeout"}
    ELSE {"error"}

\* The request ends, its result is built and the semaphore is released.
RequestDone(j, outcome) ==
    /\ call.pc = "gather"
    /\ j \in DOMAIN call.reqs
    /\ call.reqs[j].state = "inflight"
    /\ outcome \in Outcomes(session)
    /\ call' = [call EXCEPT !.semaphore = @ + 1,
                            !.reqs[j].state = "done",
                            !.reqs[j].status = outcome]
    /\ UNCHANGED <<session, calls_made, last_result, notLink>>

\* `if result["status"] in ["success", "redirect"]`
IsSuccessfulOnly2xx(status) == status = "success"
IsSuccessful(status) == status \in {"success", "redirect"}

RECURSIVE Partition(_, _)
Partition(entries, wanted) ==
    IF entries = <<>> THEN <<>>
    ELSE (IF IsSuccessful(Head(entries).status) = wanted
          THEN <<Head(entries)>> ELSE <<>>)
             \o Partition(Tail(entries), wanted)

\* Lines 102-152: the results are split, the invalid-format entries are added
\* to the failed ones and the summary is computed.
BuildResult(c) ==
    LET entries == [j \in DOMAIN c.reqs |->
                      [url |-> c.reqs[j].url, status |-> c.reqs[j].status]]
        successful_validations == Partition(entries, TRUE)
        failed_validations == Partition(entries, FALSE) \o c.invalid_urls
    IN [returned |-> TRUE,
        summary |-> [total_links |-> Len(c.links),
                     successful |-> Len(successful_validations),
                     failed |-> Len(failed_validations)],
        successful_validations |-> successful_validations,
        failed_validations |-> failed_validations]

\* Leaving `async with self`: __aexit__ closes the session the call opened;
\* the attribute keeps the closed session.
__aexit__KeepsOpen(sess, owns_session) == sess
__aexit__(sess, owns_session) == IF owns_session THEN "closed" ELSE sess

\* The gather returns, the result is built and returned.
ValidateLinksReturn ==
    /\ call.pc = "gather"
    /\ \A j \in DOMAIN call.reqs : call.reqs[j].state = "done"
    /\ last_result' = BuildResult(call)
    /\ session' = __aexit__(session, call.owns_session)
    /\ call' = IdleCall
    /\ calls_made' = calls_made + 1
    /\ UNCHANGED notLink

\* validate_links with `links` that cannot be iterated: `for link in links`
\* raises inside the `async with`, the exception leaves through __aexit__ and
\* is logged and raised again.
ValidateLinksRaises ==
    /\ call.pc = "idle"
    /\ calls_made < MaxCalls
    /\ session' = __aexit__(IF session = "none" THEN "open" ELSE session,
                            session = "none")
    /\ calls_made' = calls_made + 1
    /\ last_result' = NoResult
    /\ UNCHANGED <<call, notLink>>

\* The task awaiting validate_links is cancelled during the gather: the
\* CancelledError leaves through __aexit__.
ValidateLinksCancelled ==
    /\ call.pc = "gather"
    /\ session' = __aexit__(session, call.owns_session)
    /\ call' = IdleCall
    /\ calls_made' = calls_made + 1
    /\ UNCHANGED <<last_result, notLink>>

LinkNext ==
    \/ \E links \in LinkLists : ValidateLinksStart(links)
    \/ ValidateLinksRaises
    \/ ValidateLinksCancelled
    \/ \E j \in 1..MaxLinks : SemAcquire(j)
    \/ \E j \in 1..MaxLinks, o \in Outcomes("open") \cup Outcomes("closed") :
          RequestDone(j, o)
    \/ ValidateLinksReturn

(***************************************************************************)
(* WebSocket connections and the broadcast of the /research endpoint       *)
(***************************************************************************)
IdleBroadcast ==
    [pc |-> "idle", start_set |-> {}, visited |-> {}, sent |-> {},
     disconnected |-> {}]

WsInit ==
    /\ websocket_connections = {}
    /\ peer_gone = {}
    /\ ws_opened = 0
    /\ bcast = IdleBroadcast
    /\ research_response = "none"
    /\ requests_made = 0

\* websocket_endpoint: accept, then add the socket to the set.
WsConnect ==
    /\ ws_opened < MaxSockets
    /\ ws_opened' = ws_opened + 1
    /\ websocket_connections' = websocket_connections \cup {ws_opened + 1}
    /\ UNCHANGED <<peer_gone, bcast, research_response, requests_made, notWs>>

\* The client of a connected socket goes away.
PeerClose(w) ==
    /\ w \in websocket_connections \ peer_gone
    /\ peer_gone' = peer_gone \cup {w}
    /\ UNCHANGED <<websocket_connections, ws_opened, bcast, research_response,
                   requests_made, notWs>>

\* websocket_endpoint: receive_text raises, `finally` discards the socket.
EndpointExit(w) ==
    /\ w \in websocket_connections \cap peer_gone
    /\ websocket_connections' = websocket_connections \ {w}
    /\ UNCHANGED <<peer_gone, ws_opened, bcast, research_response,
                   requests_made, notWs>>

\* perform_research up to the loop of _broadcast_update: with no connection
\* the broadcast does nothing and the completed response is returned.
BroadcastStart ==
    /\ bcast.pc # "iterating"
    /\ requests_made < MaxRequests
    /\ IF websocket_connections = {}
       THEN /\ bcast' = [IdleBroadcast EXCEPT !.pc = "done"]
            /\ research_response' = "completed"
            /\ requests_made' = requests_made + 1
       ELSE /\ bcast' = [IdleBroadcast EXCEPT !.pc = "iterating",
                                              !.start_set = websocket_connections]
            /\ research_response' = "none"
            /\ UNCHANGED requests_made
    /\ UNCHANGED <<websocket_connections, peer_gone, ws_opened, notWs>>

\* The set iterator raises RuntimeError when the set's size differs from the
\* size at the start of the loop.
SizeChanged ==
    Cardinality(websocket_connections) # Cardinality(bcast.start_set)

\* `await websocket.send_json(message)` raises for a socket whose peer is gone.
SendFails(w) == w \in peer_gone

\* One iteration of the loop.  While the set is the one the loop started on,
\* the iterator yields each socket once; when its content changed at equal
\* size, what the iterator yields next is not defined: any member.
BroadcastSend(w) ==
    /\ bcast.pc = "iterating"
    /\ ~SizeChanged
    /\ w \in websocket_connections
    /\ websocket_connections = bcast.start_set => w \notin bcast.visited
    /\ bcast' = [bcast EXCEPT
                   !.visited = @ \cup {w},
                   !.sent = IF SendFails(w) THEN @ ELSE @ \cup {w},
                   !.disconnected = IF SendFails(w) THEN @ \cup {w} ELSE @]
    /\ UNCHANGED <<websocket_connections, peer_gone, ws_opened,
                   research_response, requests_made, notWs>>

\* The loop ends, the failed sockets are removed and /research returns.
BroadcastEnd ==
    /\ bcast.pc = "iterating"
    /\ ~SizeChanged
    /\ websocket_connections = bcast.start_set => bcast.visited = bcast.start_set
    /\ websocket_connections' = websocket_connections \ bcast.disconnected
    /\ bcast' = [bcast EXCEPT !.pc = "done"]
    /\ research_response' = "completed"
    /\ requests_made' = requests_made + 1
    /\ UNCHANGED <<peer_gone, ws_opened, notWs>>

\* The iterator raises RuntimeError: it leaves _broadcast_update and
\* perform_research turns it into HTTP 500.
BroadcastAbort ==
    /\ bcast.pc = "iterating"
    /\ SizeChanged
    /\ bcast' = [bcast EXCEPT !.pc = "aborted"]
    /\ research_response' = "error_500"
    /\ requests_made' = requests_made + 1
    /\ UNCHANGED <<websocket_connections, peer_gone, ws_opened, notWs>>

WsNext ==
    \/ WsConnect
    \/ \E w \in 1..MaxSockets : PeerClose(w)
    \/ \E w \in 1..MaxSockets : EndpointExit(w)
    \/ BroadcastStart
    \/ \E w \in 1..MaxSockets : BroadcastSend(w)
    \/ BroadcastEnd
    \/ BroadcastAbort

(***************************************************************************)
(* Troubleshooting cases                                                   *)
(***************************************************************************)
CaseIds == 1..MaxCases

\* The statuses a TroubleshootingCase documents, in lifecycle order.
Lifecycle == <<"open", "investigating", "resolved", "closed">>

\* What a caller can pass as `status`: any string.
StatusInputs == {"open", "investigating", "resolved", "closed", "on_hold"}

Severities == {"medium", "critical"}

\* The error messages a case is reported with.  The second is the first in
\* upper case; the third quotes three failures in one log line.
ErrorTexts ==
    {"connection refused",
     "CONNECTION REFUSED",
     "connection refused, authentication failed, connection timeout"}

ErrorLists == UNION {[1..n -> ErrorTexts] : n \in 0..MaxErrors}

\* What a caller passes as `resolution`: nothing, an empty text, a text.
ResolutionInputs == {"None", "", "restart the service"}

\* Python truthiness of an Optional[str].
Truthy(text) == text \notin {"None", ""}

CaseInit == troubleshooting_cases = <<>>

\* create_troubleshooting_case: a new case in status "open".
create_troubleshooting_case(severity, error_messages) ==
    /\ Len(troubleshooting_cases) < MaxCases
    /\ troubleshooting_cases' =
          Append(troubleshooting_cases,
                 [case_id |-> Len(troubleshooting_cases) + 1,
                  error_messages |-> error_messages,
                  severity |-> severity,
                  status |-> "open",
                  resolution |-> "None"])
    /\ UNCHANGED <<dashVars, notCase>>

\* update_case_status: ValueError for an unknown case, else the status is
\* overwritten with what was passed and a non-empty resolution is recorded.
update_case_status(case_id, status, resolution) ==
    /\ IF case_id \notin DOMAIN troubleshooting_cases
       THEN UNCHANGED troubleshooting_cases
       ELSE troubleshooting_cases' =
               [troubleshooting_cases EXCEPT
                  ![case_id].status = status,
                  ![case_id].resolution =
                      IF Truthy(resolution) THEN resolution ELSE @]
    /\ UNCHANGED <<dashVars, notCase>>

CaseNext ==
    \/ \E sev \in Severities, msgs \in ErrorLists :
          create_troubleshooting_case(sev, msgs)
    \/ \E c \in CaseIds, st \in StatusInputs, res \in ResolutionInputs :
          update_case_status(c, st, res)

(***************************************************************************)
(* Troubleshooting advisor: knowledge base and recommendations             *)
(***************************************************************************)
\* str.lower() on the messages and patterns of the model.
Lower(text) ==
    CASE text = "CONNECTION REFUSED" -> "connection refused"
      [] text = "Connection refused" -> "connection refused"
      [] text = "Authentication failed" -> "authentication failed"
      [] text = "Connection timeout" -> "connection timeout"
      [] text = "Database not found" -> "database not found"
      [] text = "Invalid endpoint" -> "invalid endpoint"
      [] text = "Rate limit exceeded" -> "rate limit exceeded"
      [] text = "Invalid API key" -> "invalid api key"
      [] text = "Permission denied" -> "permission denied"
      [] text = "Access denied" -> "access denied"
      [] text = "File not found" -> "file not found"
      [] text = "Read-only file system" -> "read-only file system"
      [] text = ".PDF" -> ".pdf"
      [] text = "Admin" -> "admin"
      [] text = "${DB_PASSWORD}" -> "${db_password}"
      [] text = "${PASSWORD}" -> "${password}"
      [] OTHER -> text

\* The lower-cased phrases that occur in a lower-cased message (`a in b`).
Phrases(lowered) ==
    CASE lowered = "connection refused" -> {"connection refused"}
      [] lowered = "connection refused, authentication failed, connection timeout" ->
            {"connection refused", "authentication failed",
             "connection timeout"}
      [] OTHER -> {}

\* `pattern.lower() in error.lower()`
PatternIn(pattern, error) == Lower(pattern) \in Phrases(Lower(error))

\* The entries _load_default_knowledge_base installs.
DefaultKnowledgeBase ==
    <<[entry_id |-> "kb_001",
       error_patterns |-> <<"Connection refused", "Authentication failed",
                            "Connection timeout", "Database not found">>,
       solutions |-> <<"Check database server status",
                       "Verify connection parameters",
                       "Check network connectivity",
                       "Validate credentials">>],
      [entry_id |-> "kb_002",
       error_patterns |-> <<"Invalid endpoint", "Authentication failed",
                            "Rate limit exceeded", "Invalid API key">>,
       solutions |-> <<"Verify API endpoint URL",
                       "Check API key validity",
                       "Review rate limiting settings",
                       "Validate request format">>],
      [entry_id |-> "kb_003",
       error_patterns |-> <<"Permission denied", "Access denied",
                            "File not found", "Read-only file system">>,
       solutions |-> <<"Check file permissions",
                       "Verify user ownership",
                       "Check disk space",
                       "Review SELinux/AppArmor settings">>]>>

\* Entries a caller adds: a new one, and one that reuses a default's id.
AddableEntries ==
    {[entry_id |-> "kb_004",
      error_patterns |-> <<"Connection refused">>,
      solutions |-> <<"Restart the listener">>],
     [entry_id |-> "kb_001",
      error_patterns |-> <<"Connection timeout">>,
      solutions |-> <<"Raise the connect timeout">>]}

\* A float that is the quotient of two integers.
Frac(num, den) == [num |-> num, den |-> den]
Greater(a, b) == a.num * b.den > b.num * a.den

NothingGenerated == [case_id |-> 0, recs |-> <<>>]
NoFile == [exists |-> FALSE, entries |-> <<>>, cases |-> <<>>,
           recommendations |-> <<>>]

AdvisorInit ==
    /\ knowledge_base = DefaultKnowledgeBase
    /\ recommendations = <<>>
    /\ generated = NothingGenerated
    /\ kb_file = NoFile
    /\ loads = 0

\* The key a record is filed under in its dict.
KeyOf(rec) ==
    IF "entry_id" \in DOMAIN rec THEN rec.entry_id
    ELSE IF "recommendation_id" \in DOMAIN rec THEN rec.recommendation_id
    ELSE rec.case_id

\* dict[key] = rec on an insertion-ordered dict: an existing key keeps its
\* place, a new key goes last.
Upsert(dict, rec) ==
    IF \E i \in DOMAIN dict : KeyOf(dict[i]) = KeyOf(rec)
    THEN [i \in DOMAIN dict |->
             IF KeyOf(dict[i]) = KeyOf(rec) THEN rec ELSE dict[i]]
    ELSE Append(dict, rec)

\* add_knowledge_base_entry
add_knowledge_base_entry(entry) ==
    /\ knowledge_base' = Upsert(knowledge_base, entry)
    /\ UNCHANGED <<recommendations, generated, kb_file, loads, caseVars,
                   notAdvisor>>

\* list.sort(key=score, reverse=True) of the indices in S: stable, so equal
\* scores keep their dict order.
RECURSIVE SortDescending(_, _)
SortDescending(S, score) ==
    IF S = {} THEN <<>>
    ELSE LET best == CHOOSE i \in S : \A j \in S :
                        \/ Greater(score[i], score[j])
                        \/ (~Greater(score[j], score[i]) /\ i <= j)
         IN <<best>> \o SortDescending(S \ {best}, score)

\* seq[:n]
Take(seq, n) == SubSeq(seq, 1, IF n < Len(seq) THEN n ELSE Len(seq))

\* The (error, pattern) pairs in which the pattern occurs in the error.
PatternMatches(error_messages, patterns) ==
    Cardinality({pair \in (DOMAIN error_messages) \X (DOMAIN patterns) :
                    PatternIn(patterns[pair[2]], error_messages[pair[1]])})

\* _find_relevant_kb_entries: entries with a positive relevance (a case has
\* no tags when created), by relevance, the first five.
_find_relevant_kb_entries(case, kb) ==
    LET relevance == [i \in DOMAIN kb |->
                         Frac(PatternMatches(case.error_messages,
                                             kb[i].error_patterns), 1)]
        relevant == {i \in DOMAIN kb : relevance[i].num > 0}
    IN Take(SortDescending(relevant, relevance), 5)

\* _calculate_pattern_confidence: matches / len(patterns), where every
\* (error, pattern) pair that matches counts.
_calculate_pattern_confidence(error_messages, patterns) ==
    IF error_messages = <<>> \/ patterns = <<>> THEN Frac(0, 1)
    ELSE Frac(PatternMatches(error_messages, patterns), Len(patterns))

\* A TroubleshootingRecommendation before its uuid is drawn.
Recommendation(case_id, source, confidence, steps, basis) ==
    [recommendation_id |-> 0, case_id |-> case_id, source |-> source,
     confidence_score |-> confidence, steps |-> steps, basis |-> basis]

RECURSIVE SelectSeq2(_, _)
SelectSeq2(seq, keep) ==
    IF seq = <<>> THEN <<>>
    ELSE (IF Head(seq) \in keep THEN <<Head(seq)>> ELSE <<>>)
            \o SelectSeq2(Tail(seq), keep)

\* _generate_kb_recommendations: one recommendation per relevant entry whose
\* confidence is above 0.3.
_generate_kb_recommendations(case, kb) ==
    LET relevant == _find_relevant_kb_entries(case, kb)
        confidence == [i \in DOMAIN kb |->
                          _calculate_pattern_confidence(
                              case.error_messages, kb[i].error_patterns)]
        kept == SelectSeq2(relevant,
                    {i \in DOMAIN kb : Greater(confidence[i], Frac(3, 10))})
    IN [k \in DOMAIN kept |->
           Recommendation(case.case_id, "knowledge_base",
                          confidence[kept[k]], kb[kept[k]].solutions,
                          kb[kept[k]].entry_id)]

\* _calculate_case_similarity: Jaccard index of the lower-cased messages.
_calculate_case_similarity(case1, case2) ==
    LET errors1 == {Lower(case1.error_messages[i]) :
                        i \in DOMAIN case1.error_messages}
        errors2 == {Lower(case2.error_messages[i]) :
                        i \in DOMAIN case2.error_messages}
    IN IF errors1 = {} \/ errors2 = {} THEN Frac(0, 1)
       ELSE Frac(Cardinality(errors1 \cap errors2),
                 Cardinality(errors1 \cup errors2))

\* _find_similar_cases: the other cases with similarity above 0.3, most
\* similar first, the first three.
_find_similar_cases(case, cases) ==
    LET similarity == [i \in DOMAIN cases |->
                          _calculate_case_similarity(case, cases[i])]
        similar == {i \in DOMAIN cases :
                       /\ cases[i].case_id # case.case_id
                       /\ Greater(similarity[i], Frac(3, 10))}
    IN Take(SortDescending(similar, similarity), 3)

\* The similarity a similar case must exceed to yield a recommendation.
RecommendAbove == Frac(1, 2)

\* _generate_pattern_recommendations: for each similar case above the
\* threshold that has a resolution, one step quoting that resolution.
_generate_pattern_recommendations(case, cases) ==
    LET similar == _find_similar_cases(case, cases)
        kept == SelectSeq2(similar,
                    {i \in DOMAIN cases :
                        /\ Greater(_calculate_case_similarity(case, cases[i]),
                                   RecommendAbove)
                        /\ Truthy(cases[i].resolution)})
    IN [k \in DOMAIN kept |->
           Recommendation(case.case_id, "pattern_match",
                          _calculate_case_similarity(case, cases[kept[k]]),
                          <<cases[kept[k]].resolution>>,
                          cases[kept[k]].case_id)]

\* _generate_ai_recommendations / _parse_ai_response: one recommendation of
\* confidence 0.7 per "Recommendation"/"Solution" heading of the answer;
\* none without a language model.
_generate_ai_recommendations(case, headings) ==
    [k \in 1..headings |->
        Recommendation(case.case_id, "ai", Frac(7, 10), <<>>, "llm")]

\* uuid4 for each produced recommendation: ids not used before.
Numbered(recs, used) ==
    [k \in DOMAIN recs |-> [recs[k] EXCEPT !.recommendation_id = used + k]]

\* generate_recommendations: ValueError for an unknown case; else the AI,
\* knowledge-base and pattern recommendations, stored and returned.
generate_recommendations(case_id, headings) ==
    /\ IF case_id \notin DOMAIN troubleshooting_cases
       THEN UNCHANGED <<recommendations, generated>>
       ELSE LET case == troubleshooting_cases[case_id]
                produced ==
                    Numbered(
                        _generate_ai_recommendations(case, headings)
                        \o _generate_kb_recommendations(case, knowledge_base)
                        \o _generate_pattern_recommendations(
                               case, troubleshooting_cases),
                        Len(recommendations))
            IN /\ Len(recommendations) + Len(produced) <= MaxRecommendations
               /\ recommendations' = recommendations \o produced
               /\ generated' = [case_id |-> case_id, recs |-> produced]
    /\ UNCHANGED <<knowledge_base, kb_file, loads, caseVars, notAdvisor>>

AdvisorNext ==
    \/ \E msgs \in ErrorLists : create_troubleshooting_case("medium", msgs)
    \/ \E c \in CaseIds, res \in ResolutionInputs :
          update_case_status(c, "resolved", res)
    \/ \E entry \in AddableEntries : add_knowledge_base_entry(entry)
    \/ \E c \in CaseIds, headings \in 0..1 : generate_recommendations(c, headings)

\* json.dump(asdict(record)): None is written as null; strings, lists and
\* floats are written as themselves.
JsonDump(rec) ==
    IF "resolution" \in DOMAIN rec
    THEN [rec EXCEPT !.resolution = IF @ = "None" THEN "null" ELSE @]
    ELSE rec

\* json.load followed by the dataclass constructor: null becomes None.
JsonLoad(data) ==
    IF "resolution" \in DOMAIN data
    THEN [data EXCEPT !.resolution = IF @ = "null" THEN "None" ELSE @]
    ELSE data

\* save_knowledge_base: the values of the three dicts, in dict order.
save_knowledge_base ==
    /\ kb_file' =
          [exists |-> TRUE,
           entries |-> [i \in DOMAIN knowledge_base |->
                           JsonDump(knowledge_base[i])],
           cases |-> [i \in DOMAIN troubleshooting_cases |->
                         JsonDump(troubleshooting_cases[i])],
           recommendations |-> [i \in DOMAIN recommendations |->
                                   JsonDump(recommendations[i])]]
    /\ UNCHANGED <<knowledge_base, recommendations, generated, loads,
                   caseVars, notAdvisor>>

\* The loop `for data in kb_data[...]: dict[record.id] = record`.
LoadedFirstOnly(dict, data) ==
    IF data = <<>> THEN dict ELSE Upsert(dict, JsonLoad(Head(data)))
RECURSIVE Loaded(_, _)
Loaded(dict, data) ==
    IF data = <<>> THEN dict
    ELSE Loaded(Upsert(dict, JsonLoad(Head(data))), Tail(data))

\* load_knowledge_base: FileNotFoundError without a file; else every record
\* of the file is filed under its id in the advisor's dicts.
load_knowledge_base ==
    /\ loads < MaxLoads
    /\ IF ~kb_file.exists
       THEN UNCHANGED <<knowledge_base, troubleshooting_cases,
                        recommendations, loads>>
       ELSE /\ knowledge_base' = Loaded(knowledge_base, kb_file.entries)
            /\ troubleshooting_cases' =
                  Loaded(troubleshooting_cases, kb_file.cases)
            /\ recommendations' =
                  Loaded(recommendations, kb_file.recommendations)
            /\ loads' = loads + 1
    /\ UNCHANGED <<generated, kb_file, dashVars, notAdvisor>>

KbNext ==
    \/ create_troubleshooting_case("medium", <<"connection refused">>)
    \/ \E c \in CaseIds : update_case_status(c, "resolved", "restart the service")
    \/ \E entry \in AddableEntries : add_knowledge_base_entry(entry)
    \/ \E c \in CaseIds : generate_recommendations(c, 0)
    \/ save_knowledge_base
    \/ load_knowledge_base

(***************************************************************************)
(* The supervising start-up manager (start_system.py)                      *)
(***************************************************************************)
NewManager == [pc |-> "new", running |-> FALSE, signalled |-> FALSE,
               spawn_failed |-> FALSE]

ManagerInit ==
    /\ manager = NewManager
    /\ processes = <<>>
    /\ children = <<>>

\* start_dashboard: Popen either gives a child, appended to processes, or
\* raises and the method returns False.
start_dashboard(procs, kids, popen_ok) ==
    IF popen_ok
    THEN [ok |-> TRUE,
          processes |-> Append(procs, [name |-> "dashboard",
                                       pid |-> Len(kids) + 1]),
          children |-> Append(kids, "alive")]
    ELSE [ok |-> FALSE, processes |-> procs, children |-> kids]

\* process.terminate() then wait(timeout=10), process.kill() on timeout.
Terminated(state, exits_on_terminate) ==
    IF state # "alive" THEN state
    ELSE IF exits_on_terminate THEN "terminated" ELSE "killed"

\* stop_system: every supervised child is terminated, the list is cleared.
stop_system(procs, kids, exits_on_terminate) ==
    [i \in DOMAIN kids |->
        IF \E k \in DOMAIN procs : procs[k].pid = i
        THEN Terminated(kids[i], exits_on_terminate)
        ELSE kids[i]]

\* run() up to the loop: start_system returns False when a dependency is
\* missing, a component fails to initialise or the dashboard cannot be
\* spawned, and the process exits with status 1.
ManagerStart(dependencies_ok, popen_ok) ==
    /\ manager.pc = "new"
    /\ LET started == start_dashboard(processes, children, popen_ok)
       IN IF dependencies_ok /\ started.ok
          THEN /\ manager' = [manager EXCEPT !.pc = "loop", !.running = TRUE]
               /\ processes' = started.processes
               /\ children' = started.children
          ELSE /\ manager' = [manager EXCEPT !.pc = "exit_1",
                                  !.spawn_failed = dependencies_ok]
               /\ UNCHANGED <<processes, children>>
    /\ UNCHANGED <<caseVars, notManager>>

\* A child exits by itself.
ChildExits(pid) ==
    /\ pid \in DOMAIN children
    /\ children[pid] = "alive"
    /\ children' = [children EXCEPT ![pid] = "exited"]
    /\ UNCHANGED <<manager, processes, caseVars, notManager>>

\* `if name == "dashboard"`: the children that are restarted.
RestartsNothing(name) == FALSE
Restarts(name) == name = "dashboard"

\* The body of `for name, process in self.processes[:]`: a child whose poll()
\* is not None is removed and, if it is the dashboard, started again; a
\* failed restart clears `running` and leaves the for loop.
RECURSIVE Sweep(_, _, _, _, _)
Sweep(todo, procs, kids, running, popen_ok) ==
    IF todo = <<>> \/ ~running
    THEN [processes |-> procs, children |-> kids, running |-> running]
    ELSE LET p == Head(todo)
         IN IF kids[p.pid] = "alive"
            THEN Sweep(Tail(todo), procs, kids, running, popen_ok)
            ELSE LET removed == SelectSeq(procs, LAMBDA q : q # p)
                 IN IF ~Restarts(p.name)
                    THEN Sweep(Tail(todo), removed, kids, running, popen_ok)
                    ELSE LET started == start_dashboard(removed, kids, popen_ok)
                         IN Sweep(Tail(todo), started.processes,
                                  started.children, started.ok, popen_ok)

\* One iteration of `while self.running`; when `running` has been cleared
\* the loop ends and the `finally` clause runs stop_system.
ManagerLoop(popen_ok, exits_on_terminate) ==
    /\ manager.pc = "loop"
    /\ Len(children) < MaxSpawns
    /\ LET swept == Sweep(processes, processes, children, TRUE, popen_ok)
       IN IF swept.running
          THEN /\ processes' = swept.processes
               /\ children' = swept.children
               /\ UNCHANGED manager
          ELSE /\ manager' = [manager EXCEPT !.pc = "stopped",
                                  !.running = FALSE, !.spawn_failed = TRUE]
               /\ children' = stop_system(swept.processes, swept.children,
                                          exits_on_terminate)
               /\ processes' = <<>>
    /\ UNCHANGED <<caseVars, notManager>>

\* SIGINT or SIGTERM while supervising: signal_handler runs stop_system and
\* sys.exit(0).
ManagerSignal(exits_on_terminate) ==
    /\ manager.pc = "loop"
    /\ manager' = [manager EXCEPT !.pc = "exit_0", !.running = FALSE,
                                  !.signalled = TRUE]
    /\ children' = stop_system(processes, children, exits_on_terminate)
    /\ processes' = <<>>
    /\ UNCHANGED <<caseVars, notManager>>

ManagerNext ==
    \/ \E deps \in BOOLEAN, ok \in BOOLEAN : ManagerStart(deps, ok)
    \/ \E pid \in 1..MaxSpawns : ChildExits(pid)
    \/ \E ok \in BOOLEAN, ex \in BOOLEAN : ManagerLoop(ok, ex)
    \/ \E ex \in BOOLEAN : ManagerSignal(ex)

(***************************************************************************)
(* The terminal launcher (simple_launcher.py)                              *)
(***************************************************************************)
\* wait_for_server(timeout=30): the number of attempts.
wait_timeout == 30

NewLauncher == [pc |-> "new", attempt |-> 0, term_sent |-> FALSE,
                returned |-> "nothing"]

LauncherInit ==
    /\ launcher = NewLauncher
    /\ server_process = "None"

\* run() up to start_server: without Python, or when Popen raises, run()
\* returns False with no child; the `finally` clause finds no server_process.
LauncherStart(python_ok, popen_ok) ==
    /\ launcher.pc = "new"
    /\ IF python_ok /\ popen_ok
       THEN /\ launcher' = [launcher EXCEPT !.pc = "wait_for_server"]
            /\ server_process' = "alive"
       ELSE /\ launcher' = [launcher EXCEPT !.pc = "done",
                                            !.returned = "False"]
            /\ UNCHANGED server_process
    /\ UNCHANGED notLauncher

\* The server child exits by itself, or on the SIGTERM it was sent.
ServerProcessExits ==
    /\ server_process = "alive"
    /\ server_process' = "exited"
    /\ UNCHANGED <<launcher, notLauncher>>

\* One attempt of wait_for_server: a 200 answer ends the wait and the
\* browser is opened; anything else sleeps a second; after `timeout`
\* attempts the wait returns False.  Either way the menu comes next.
WaitForServer(answered) ==
    /\ launcher.pc = "wait_for_server"
    /\ launcher' =
          IF answered /\ server_process = "alive"
          THEN [launcher EXCEPT !.pc = "show_menu"]
          ELSE IF launcher.attempt + 1 = wait_timeout
          THEN [launcher EXCEPT !.pc = "show_menu", !.attempt = @ + 1]
          ELSE [launcher EXCEPT !.attempt = @ + 1]
    /\ UNCHANGED <<server_process, notLauncher>>

\* show_menu ends on choice 6 or on Ctrl-C at the prompt; run() returns True
\* after the `finally` clause.
MenuExit ==
    /\ launcher.pc = "show_menu"
    /\ launcher' = [launcher EXCEPT !.pc = "cleanup", !.returned = "True"]
    /\ UNCHANGED <<server_process, notLauncher>>

\* KeyboardInterrupt or another exception while waiting for the server or
\* opening the browser: the `except` clauses of run() return False after the
\* `finally` clause.
Interrupted ==
    /\ launcher.pc = "wait_for_server"
    /\ launcher' = [launcher EXCEPT !.pc = "cleanup", !.returned = "False"]
    /\ UNCHANGED <<server_process, notLauncher>>

\* cleanup, first half: server_process.terminate().
CleanupTerminate ==
    /\ launcher.pc = "cleanup"
    /\ launcher' = [launcher EXCEPT !.pc = "cleanup_wait",
                                    !.term_sent = TRUE]
    /\ UNCHANGED <<server_process, notLauncher>>

\* What cleanup does when wait(timeout=5) raises TimeoutExpired.
OnTimeoutExpiredPass(state) == state
OnTimeoutExpired(state) == "killed"

\* cleanup, second half: wait(timeout=5) returns once the child has exited,
\* else TimeoutExpired is raised and the child is killed.
CleanupWait ==
    /\ launcher.pc = "cleanup_wait"
    /\ server_process' =
          IF server_process = "alive" THEN OnTimeoutExpired(server_process)
          ELSE server_process
    /\ launcher' = [launcher EXCEPT !.pc = "done"]
    /\ UNCHANGED notLauncher

LauncherNext ==
    \/ \E py \in BOOLEAN, ok \in BOOLEAN : LauncherStart(py, ok)
    \/ ServerProcessExits
    \/ \E answered \in BOOLEAN : WaitForServer(answered)
    \/ MenuExit
    \/ Interrupted
    \/ CleanupTerminate
    \/ CleanupWait

(***************************************************************************)
(* The desktop GUI's server start and readiness poll (gui_app.py)          *)
(***************************************************************************)
NewGui == [starts |-> 0, scheduled |-> 0, attempts |-> 0, failures |-> 0,
           server_running |-> FALSE, warned |-> FALSE, threads |-> 0]

GuiInit ==
    /\ gui = NewGui
    /\ gui_server = "not started"

\* start_server: an error box when the system modules are missing; else the
\* server thread is started and check_server_status is scheduled.
GuiStartServer(system_available) ==
    /\ gui.starts < MaxStarts
    /\ IF system_available
       THEN /\ gui' = [gui EXCEPT !.starts = @ + 1, !.scheduled = @ + 1,
                                  !.threads = @ + 1]
            /\ gui_server' = IF gui_server \in {"not started", "exited"}
                             THEN "silent" ELSE gui_server
       ELSE /\ gui' = [gui EXCEPT !.starts = @ + 1]
            /\ UNCHANGED gui_server
    /\ UNCHANGED notGui

\* The server thread starts answering: with 200, or with another status.
GuiServerAnswers(how) ==
    /\ gui_server = "silent"
    /\ gui_server' = how
    /\ UNCHANGED <<gui, notGui>>

\* run_server ends in a server thread (it could not bind the port, or the
\* server failed): the thread is over. Nothing else ends a server thread.
GuiThreadExits ==
    /\ gui.threads > 0
    /\ gui' = [gui EXCEPT !.threads = @ - 1]
    /\ gui_server' = IF gui.threads = 1 THEN "exited" ELSE gui_server
    /\ UNCHANGED notGui

\* check_server_status: 200 sets server_running; another status logs a
\* warning; an exception (no answer) schedules the check again.
check_server_status ==
    /\ gui.scheduled > 0
    /\ gui.failures < MaxPolls
    /\ gui' =
          IF gui_server = "answers 200"
          THEN [gui EXCEPT !.attempts = @ + 1, !.scheduled = @ - 1,
                           !.server_running = TRUE]
          ELSE IF gui_server = "answers 503"
          THEN [gui EXCEPT !.attempts = @ + 1, !.scheduled = @ - 1,
                           !.warned = TRUE]
          ELSE [gui EXCEPT !.attempts = @ + 1, !.failures = @ + 1]
    /\ UNCHANGED <<gui_server, notGui>>

\* stop_server
stop_server ==
    /\ gui.server_running
    /\ gui' = [gui EXCEPT !.server_running = FALSE]
    /\ UNCHANGED <<gui_server, notGui>>

GuiNext ==
    \/ \E available \in BOOLEAN : GuiStartServer(available)
    \/ \E how \in {"answers 200", "answers 503"} : GuiServerAnswers(how)
    \/ GuiThreadExits
    \/ check_server_status
    \/ stop_server

(***************************************************************************)
(* The link crawler (utils/link_analyzer.py)                               *)
(***************************************************************************)
\* `list(urls_to_visit)[:10]`
batch_size == 10

\* URLs by what the crawler looks at: the host and the end of the string.
Domains == {"example.com", "github.com", "other.org"}
Tails == {"/index.html", ".pdf", ".PDF", "/"}
Urls == [netloc : Domains, tail : Tails]

config_domains ==
    {"github.com", "gitlab.com", "bitbucket.org", "docs.microsoft.com",
     "docs.aws.amazon.com", "cloud.google.com", "kubernetes.io",
     "docker.com", "nginx.org", "apache.org", "postgresql.org", "mysql.com",
     "redis.io", "elastic.co", "mongodb.com"}

excluded_extensions ==
    {".pdf", ".doc", ".docx", ".zip", ".tar", ".gz", ".jpg", ".png", ".gif"}

\* _should_crawl_link: a link to another host is crawled iff the host is a
\* configuration domain; a link to the same host unless it ends with an
\* excluded extension.
_should_crawl_link(link, parent_url) ==
    IF link.netloc # parent_url.netloc
    THEN link.netloc \in config_domains
    ELSE Lower(link.tail) \notin excluded_extensions

\* _analyze_single_link_local: nothing is fetched; every URL is reported
\* valid with no links found.
_analyze_single_link_local(url) ==
    [url |-> url, is_valid |-> TRUE, links_found |-> <<>>]

NoCrawl == [pc |-> "idle", urls_to_visit |-> {}, visited_urls |-> {},
            results |-> {}, max_pages |-> 0]
NoVerdict == [asked |-> FALSE, link |-> [netloc |-> "", tail |-> ""],
              parent_url |-> [netloc |-> "", tail |-> ""], crawl |-> FALSE]

CrawlInit ==
    /\ crawl = NoCrawl
    /\ crawl_verdict = NoVerdict

\* crawl_links up to the loop.
CrawlStart(start_urls, max_pages) ==
    /\ crawl.pc = "idle"
    /\ crawl' = [pc |-> "loop", urls_to_visit |-> start_urls,
                 visited_urls |-> {}, results |-> {},
                 max_pages |-> max_pages]
    /\ UNCHANGED <<crawl_verdict, notCrawl>>

\* The links of one result that are added to urls_to_visit.
RECURSIVE Queued(_, _, _, _)
Queued(links, parent_url, visited, to_visit) ==
    IF links = <<>> THEN to_visit
    ELSE Queued(Tail(links), parent_url, visited,
                IF /\ Head(links) \notin visited
                   /\ Head(links) \notin to_visit
                   /\ _should_crawl_link(Head(links), parent_url)
                THEN to_visit \cup {Head(links)} ELSE to_visit)

\* `for result in batch_results`: every valid result not seen before is
\* appended to the results, whatever their number, and its links are queued.
RECURSIVE ProcessBatch(_, _)
ProcessBatch(batch, c) ==
    IF batch = {} THEN c
    ELSE LET url == CHOOSE u \in batch : TRUE
             result == _analyze_single_link_local(url)
         IN IF result.is_valid /\ result.url \notin c.visited_urls
            THEN ProcessBatch(batch \ {url},
                    [c EXCEPT !.visited_urls = @ \cup {result.url},
                              !.results = @ \cup {result.url},
                              !.urls_to_visit =
                                  Queued(result.links_found, result.url,
                                         c.visited_urls \cup {result.url},
                                         @)])
            ELSE ProcessBatch(batch \ {url}, c)

\* One iteration of the while loop: a batch of at most batch_size URLs is
\* taken out of urls_to_visit, analysed and processed.
CrawlBatch(batch) ==
    /\ crawl.pc = "loop"
    /\ crawl.urls_to_visit # {}
    /\ Cardinality(crawl.results) < crawl.max_pages
    /\ batch \subseteq crawl.urls_to_visit
    /\ Cardinality(batch) =
          (IF Cardinality(crawl.urls_to_visit) < batch_size
           THEN Cardinality(crawl.urls_to_visit) ELSE batch_size)
    /\ crawl' = ProcessBatch(batch,
                    [crawl EXCEPT !.urls_to_visit = @ \ batch])
    /\ UNCHANGED <<crawl_verdict, notCrawl>>

\* The while condition fails: crawl_links returns the results.
CrawlReturn ==
    /\ crawl.pc = "loop"
    /\ (crawl.urls_to_visit = {}
          \/ Cardinality(crawl.results) >= crawl.max_pages)
    /\ crawl' = [crawl EXCEPT !.pc = "returned"]
    /\ UNCHANGED <<crawl_verdict, notCrawl>>

\* A call of _should_crawl_link for a link found on a page.
ShouldCrawlLink(link, parent_url) ==
    /\ crawl_verdict' = [asked |-> TRUE, link |-> link,
                         parent_url |-> parent_url,
                         crawl |-> _should_crawl_link(link, parent_url)]
    /\ UNCHANGED <<crawl, notCrawl>>

CrawlNext ==
    \/ \E start_urls \in SUBSET Urls, max_pages \in 0..MaxPages :
          CrawlStart(start_urls, max_pages)
    \/ \E batch \in SUBSET Urls : CrawlBatch(batch)
    \/ CrawlReturn

ShouldCrawlNext ==
    \E link \in Urls, parent_url \in Urls : ShouldCrawlLink(link, parent_url)

(***************************************************************************)
(* Security validation of a configuration file (validators/               *)
(* config_validator.py)                                                    *)
(***************************************************************************)
sensitive_fields ==
    {"password", "passwd", "pwd", "secret", "key", "token", "api_key",
     "private_key", "certificate", "credential"}
insecure_values ==
    {"password", "123456", "admin", "root", "test", "default", "guest",
     "user", "changeme", "password123"}
security_requirements ==
    {"ssl_enabled", "encryption_enabled", "authentication_required",
     "password_complexity"}
dangerous_settings ==
    {"debug", "test_mode", "allow_all_origins", "disable_ssl_verification"}

\* A configuration document is a YAML mapping of one level: a function from
\* its keys to the text written after `key: `.
ConfigKeys == {"api_key", "allow_all_origins", "ssl_enabled"}
ConfigValues ==
    {"hunter2", "${DB_PASSWORD}", "${PASSWORD}", "Admin", "true", "false"}
ConfigDocuments == UNION {[keys -> ConfigValues] : keys \in SUBSET ConfigKeys}

\* The document with one more line `key: value`.
WithLine(doc, key, value) ==
    [k \in DOMAIN doc \cup {key} |-> IF k = key THEN value ELSE doc[k]]

\* The YAML scalar a value text is loaded as.
ParseScalar(text) ==
    CASE text = "true" -> [type |-> "bool", value |-> "True"]
      [] text = "false" -> [type |-> "bool", value |-> "False"]
      [] OTHER -> [type |-> "str", value |-> text]

\* The sensitive fields whose pattern `field\s*[=:]\s*...` matches at the
\* line `key: value`: those the key ends with.
FieldsMatching(key) ==
    CASE key = "password" -> {"password"}
      [] key = "api_key" -> {"key", "api_key"}
      [] OTHER -> {}

\* '${' + sensitive_field.upper() + '}'
FieldPlaceholder(sensitive_field) ==
    CASE sensitive_field = "password" -> "${PASSWORD}"
      [] sensitive_field = "key" -> "${KEY}"
      [] sensitive_field = "api_key" -> "${API_KEY}"
      [] OTHER -> "${}"

\* _check_sensitive_values: the numbers of errors (a sensitive field assigned
\* a value that is not one of the listed exclusions) and of warnings (a string
\* value that is an insecure default).
_check_sensitive_values(content, parsed_data) ==
    [errors |-> Cardinality(
        {m \in sensitive_fields \X DOMAIN content :
            /\ m[1] \in FieldsMatching(m[2])
            /\ content[m[2]] \notin
                  {"", "null", "none", "${VAR}", FieldPlaceholder(m[1])}}),
     warnings |-> Cardinality(
        {key \in DOMAIN parsed_data :
            /\ parsed_data[key].type = "str"
            /\ Lower(parsed_data[key].value) \in insecure_values})]

\* _check_security_requirements: a requirement not found, or not True, is a
\* warning; it reports no errors.
_check_security_requirements(parsed_data) ==
    [errors |-> 0,
     warnings |-> Cardinality(
        {requirement \in security_requirements :
            \/ requirement \notin DOMAIN parsed_data
            \/ parsed_data[requirement] #
                   [type |-> "bool", value |-> "True"]})]

\* _check_dangerous_settings: a dangerous setting found and not False is an
\* error for disable_ssl_verification and allow_all_origins, else a warning.
_check_dangerous_settings(parsed_data) ==
    LET unsafe == {setting \in dangerous_settings :
                      /\ setting \in DOMAIN parsed_data
                      /\ parsed_data[setting] #
                            [type |-> "bool", value |-> "False"]}
        errs == unsafe \cap {"disable_ssl_verification", "allow_all_origins"}
    IN [errors |-> Cardinality(errs),
        warnings |-> Cardinality(unsafe \ errs)]

\* max(0, n)
AtLeastZero(n) == IF n < 0 THEN 0 ELSE n

\* _perform_security_validation on a document: the sub-report's counts and
\* its score.
_perform_security_validation(doc) ==
    LET parsed_data == [key \in DOMAIN doc |-> ParseScalar(doc[key])]
        sensitive_checks == _check_sensitive_values(doc, parsed_data)
        security_req_checks == _check_security_requirements(parsed_data)
        dangerous_checks == _check_dangerous_settings(parsed_data)
    IN [errors |-> sensitive_checks.errors + security_req_checks.errors
                      + dangerous_checks.errors,
        warnings |-> sensitive_checks.warnings + security_req_checks.warnings
                      + dangerous_checks.warnings,
        security_score |->
            AtLeastZero(100 - sensitive_checks.errors * 20
                            - sensitive_checks.warnings * 10
                            - security_req_checks.errors * 15
                            - dangerous_checks.errors * 25)]

NotValidated == [validated |-> FALSE, rest |-> <<>>,
                 literal |-> [errors |-> 0, warnings |-> 0,
                              security_score |-> 100],
                 placeholder |-> [errors |-> 0, warnings |-> 0,
                                  security_score |-> 100]]

ValidatorInit == security = NotValidated

\* Two documents with the same other lines are validated, one with the
\* password written out and one with a ${DB_PASSWORD} reference.
ValidateBoth(rest) ==
    /\ security' =
          [validated |-> TRUE, rest |-> rest,
           literal |-> _perform_security_validation(
                          WithLine(rest, "password", "hunter2")),
           placeholder |-> _perform_security_validation(
                          WithLine(rest, "password", "${DB_PASSWORD}"))]
    /\ UNCHANGED notValidator

ValidatorNext == \E rest \in ConfigDocuments : ValidateBoth(rest)

(***************************************************************************)
(* Summary of a comprehensive analysis (integration/cursor_integration.py) *)
(***************************************************************************)
\* The validation results of one workbook: for each sheet, the number of
\* security issues found in it.
SheetResults == UNION {[1..n -> 0..MaxIssues] : n \in 0..MaxSheets}

\* An entry of results["excel_analysis"]: the analysis of a workbook, or the
\* error processing it raised.
ExcelResults ==
    {[error |-> TRUE, validation_results |-> <<>>]}
        \cup [error : {FALSE}, validation_results : SheetResults]
ExcelAnalyses == UNION {[1..n -> ExcelResults] : n \in 0..MaxExcelFiles}

\* The loop over the sheets of one workbook.
RECURSIVE SheetLoop(_, _)
SheetLoop(validation_results, s) ==
    IF validation_results = <<>> THEN s
    ELSE SheetLoop(Tail(validation_results),
            IF Head(validation_results) > 0
            THEN [s EXCEPT !.critical = @ + Head(validation_results),
                           !.overall_health_score = @ - 10]
            ELSE s)

\* The loop over the workbooks.
RECURSIVE ExcelLoop(_, _)
ExcelLoop(excel_analysis, s) ==
    IF excel_analysis = <<>> THEN s
    ELSE ExcelLoop(Tail(excel_analysis),
            IF ~Head(excel_analysis).error
            THEN SheetLoop(Head(excel_analysis).validation_results, s)
            ELSE s)

\* _generate_comprehensive_summary
_generate_comprehensive_summary(excel_analysis) ==
    LET s == ExcelLoop(excel_analysis,
                [excel |-> Len(excel_analysis), critical |-> 0,
                 overall_health_score |-> 100])
    IN [s EXCEPT !.overall_health_score = AtLeastZero(@)]

NoSummary == [made |-> FALSE, excel_analysis |-> <<>>,
              summary |-> [excel |-> 0, critical |-> 0,
                           overall_health_score |-> 100]]

SummaryInit == summary = NoSummary

\* A comprehensive analysis ends with the summary of its results.
ComprehensiveAnalysis(excel_analysis) ==
    /\ summary' = [made |-> TRUE, excel_analysis |-> excel_analysis,
                   summary |-> _generate_comprehensive_summary(excel_analysis)]
    /\ UNCHANGED notSummary

SummaryNext ==
    \E excel_analysis \in ExcelAnalyses : ComprehensiveAnalysis(excel_analysis)

(***************************************************************************)
(* Rules of type `command` (utils/validation_engine.py)                    *)
(***************************************************************************)
\* How subprocess.run can end.
CommandOutcomes == {"exit 0", "exit 1", "TimeoutExpired", "FileNotFoundError"}

NoCommand == [pc |-> "idle", runs |-> 0, temp_file |-> 0, status |-> "none"]

CommandInit ==
    /\ command_rule = NoCommand
    /\ temp_dir = {}

\* _validate_command up to subprocess.run: without a command the rule is an
\* error at once; else the temporary file is created (delete=False) and the
\* configuration dumped into it. When json.dump raises, the file stays and the
\* generic handler returns an error.
CommandRuleStart(has_command, serializable) ==
    /\ command_rule.pc = "idle"
    /\ command_rule.runs < MaxCommandRuns
    /\ LET temp_file == command_rule.runs + 1
       IN IF ~has_command
          THEN /\ command_rule' = [command_rule EXCEPT !.runs = temp_file,
                                       !.temp_file = 0, !.status = "error"]
               /\ UNCHANGED temp_dir
          ELSE /\ temp_dir' = temp_dir \cup {temp_file}
               /\ command_rule' =
                     IF serializable
                     THEN [pc |-> "subprocess.run", runs |-> temp_file,
                           temp_file |-> temp_file, status |-> "none"]
                     ELSE [pc |-> "idle", runs |-> temp_file,
                           temp_file |-> 0, status |-> "error"]
    /\ UNCHANGED notCommand

\* `Path(temp_file).unlink()` follows subprocess.run in the try block: it is
\* reached when the command has exited, not when run() raised.
Unlink(outcome, files, temp_file) ==
    IF outcome \in {"exit 0", "exit 1"} THEN files \ {temp_file} ELSE files

\* subprocess.run ends and the rule's result is returned.
CommandRuleEnd(outcome) ==
    /\ command_rule.pc = "subprocess.run"
    /\ temp_dir' = Unlink(outcome, temp_dir, command_rule.temp_file)
    /\ command_rule' =
          [command_rule EXCEPT
              !.pc = "idle",
              !.status = CASE outcome = "exit 0" -> "passed"
                           [] outcome = "exit 1" -> "failed"
                           [] OTHER -> "error"]
    /\ UNCHANGED notCommand

CommandNext ==
    \/ \E has_command \in BOOLEAN, serializable \in BOOLEAN :
          CommandRuleStart(has_command, serializable)
    \/ \E outcome \in CommandOutcomes : CommandRuleEnd(outcome)

(***************************************************************************)
(* File uploads (dashboard/app.py, integration/cursor_integration.py)      *)
(***************************************************************************)
Filenames == {"config.xlsx", "errors.pdf"}
SessionIds == {"s1", "s2"}

UploadInit ==
    /\ written = <<>>
    /\ uuids = 0

\* POST /api/upload/file of the dashboard: the stored name is
\* f"{session_id}_{uuid.uuid4()}_{file.filename}"; uuid4 is a value not
\* drawn before. The legacy endpoints /api/upload/excel and /api/upload/pdf
\* call it with the session id "legacy".
upload_file(filename, session_id) ==
    /\ Len(written) < MaxUploads
    /\ uuids' = uuids + 1
    /\ written' = Append(written,
                     [dir |-> "/workspace/data/uploads",
                      session_id |-> session_id, uuid |-> uuids + 1,
                      filename |-> filename])
    /\ UNCHANGED notUpload

\* POST /upload/excel of the integration server: the file is written to
\* data/excel/<filename>.
upload_excel(filename) ==
    /\ Len(written) < MaxUploads
    /\ written' = Append(written,
                     [dir |-> "data/excel", session_id |-> "", uuid |-> 0,
                      filename |-> filename])
    /\ UNCHANGED <<uuids, notUpload>>

\* POST /upload/pdf of the integration server: data/pdfs/<filename>.
upload_pdf(filename) ==
    /\ Len(written) < MaxUploads
    /\ written' = Append(written,
                     [dir |-> "data/pdfs", session_id |-> "", uuid |-> 0,
                      filename |-> filename])
    /\ UNCHANGED <<uuids, notUpload>>

UploadNext ==
    \/ \E filename \in Filenames, session_id \in SessionIds \cup {"legacy"} :
          upload_file(filename, session_id)
    \/ \E filename \in Filenames : upload_excel(filename)
    \/ \E filename \in Filenames : upload_pdf(filename)

(***************************************************************************)
(* Dashboard HTTP API                                                      *)
(***************************************************************************)
NoException == [class |-> "none", status |-> 0]
ValueError == [class |-> "ValueError", status |-> 0]
HTTPException(status_code) == [class |-> "HTTPException", status |-> status_code]

\* `except <cls>` catches the exception: HTTPException and ValueError are
\* both subclasses of Exception.
Catches(cls, exc) == cls = "Exception" \/ cls = exc.class

\* The status an endpoint answers with: 200 when its body returned, the code
\* of the first `except` clause that catches what the body raised (each
\* re-raises an HTTPException of that code).
RECURSIVE Answer(_, _)
Answer(exc, clauses) ==
    IF exc.class = "none" THEN 200
    ELSE IF clauses = <<>>
    THEN (IF exc.class = "HTTPException" THEN exc.status ELSE 500)
    ELSE IF Catches(Head(clauses).class, exc) THEN Head(clauses).code
    ELSE Answer(exc, Tail(clauses))

ValueErrorThenException ==
    <<[class |-> "ValueError", code |-> 404], [class |-> "Exception", code |-> 500]>>
ExceptionOnly == <<[class |-> "Exception", code |-> 500]>>

NoResponse == [endpoint |-> "none", exists |-> TRUE, code |-> 0]

DashInit == api_response = NoResponse

\* GET /api/research-tasks/{task_id}
get_research_task(tid) ==
    /\ LET exc == IF tid \in DOMAIN tasks THEN NoException ELSE ValueError
       IN api_response' = [endpoint |-> "get_research_task",
                           exists |-> tid \in DOMAIN tasks,
                           code |-> Answer(exc, ValueErrorThenException)]
    /\ UNCHANGED <<researchVars, caseVars, notDash>>

\* POST /api/research-tasks/{task_id}/execute: add_task only registers the
\* coroutine, which runs after the response has been sent.
execute_research_task_endpoint(e, tid) ==
    /\ execs[e].pc = "idle"
    /\ \A f \in ExecIds : f < e => execs[f].pc # "idle"
    /\ execs' = [execs EXCEPT ![e].pc = "scheduled", ![e].task_id = tid]
    /\ api_response' = [endpoint |-> "execute_research_task",
                        exists |-> tid \in DOMAIN tasks,
                        code |-> Answer(NoException, ValueErrorThenException)]
    /\ UNCHANGED <<tasks, results, caseVars, notDash>>

\* The background task starts: execute_research_task(task_id) up to the gather.
BackgroundStart(e) ==
    /\ execs[e].pc = "scheduled"
    /\ LET tid == execs[e].task_id
       IN IF tid \notin DOMAIN tasks
          THEN /\ execs' = [execs EXCEPT ![e].pc = "raised",
                                         ![e].raised_in = "lookup"]
               /\ UNCHANGED tasks
          ELSE /\ tasks' = [tasks EXCEPT ![tid].status = "running"]
               /\ execs' = [execs EXCEPT ![e].pc = "gather"]
    /\ UNCHANGED <<results, notResearch>>

\* GET /api/research-tasks/{task_id}/results: the 404 is raised inside the
\* `try` whose last clause is `except Exception`.
get_research_task_results(tid) ==
    /\ LET exc == IF tid \in DOMAIN results THEN NoException
                  ELSE HTTPException(404)
       IN api_response' = [endpoint |-> "get_research_task_results",
                           exists |-> tid \in DOMAIN results,
                           code |-> Answer(exc, ValueErrorThenException)]
    /\ UNCHANGED <<researchVars, caseVars, notDash>>

\* GET /api/troubleshooting-cases/{case_id}
get_troubleshooting_case(cid) ==
    /\ LET exc == IF cid \in DOMAIN troubleshooting_cases THEN NoException
                  ELSE HTTPException(404)
       IN api_response' = [endpoint |-> "get_troubleshooting_case",
                           exists |-> cid \in DOMAIN troubleshooting_cases,
                           code |-> Answer(exc, ExceptionOnly)]
    /\ UNCHANGED <<researchVars, caseVars, notDash>>

DashNext ==
    \/ \E b \in Bundles : create_research_task(b)
    \/ \E e \in ExecIds, tid \in TaskIds : execute_research_task_endpoint(e, tid)
    \/ \E e \in ExecIds : BackgroundStart(e)
    \/ \E e \in ExecIds, s \in Sources : SourceFinish(e, s)
    \/ \E e \in ExecIds : GatherJoin(e)
    \/ \E e \in ExecIds : PerformValidation(e)
    \/ \E e \in ExecIds : Finish(e)
    \/ \E sev \in Severities : create_troubleshooting_case(sev, <<>>)
    \/ \E tid \in TaskIds : get_research_task(tid)
    \/ \E tid \in TaskIds : get_research_task_results(tid)
    \/ \E cid \in CaseIds : get_troubleshooting_case(cid)

(***************************************************************************)
(* Validation history of the rule engine                                   *)
(***************************************************************************)
RuleStatuses == {"passed", "failed", "warning", "error"}

\* What the enabled rules report for one configuration, rule by rule.
RuleOutcomes == [1..NumRules -> RuleStatuses]

RECURSIVE CountStatus(_, _)
CountStatus(statuses, wanted) ==
    IF statuses = <<>> THEN 0
    ELSE (IF Head(statuses) = wanted THEN 1 ELSE 0)
            + CountStatus(Tail(statuses), wanted)

NoReply == [asked |-> FALSE, limit |-> 0, reports |-> <<>>]

HistoryInit ==
    /\ validation_history = <<>>
    /\ history_reply = NoReply

\* The report validate_configuration builds from the rule results.
MakeReport(serial, outcomes) ==
    LET passed == CountStatus(outcomes, "passed")
        failed == CountStatus(outcomes, "failed")
        warning == CountStatus(outcomes, "warning")
    IN [serial |-> serial,
        total_rules |-> Len(outcomes),
        passed_rules |-> passed,
        failed_rules |-> failed,
        warning_rules |-> warning,
        results |-> outcomes,
        overall_status |-> IF failed > 0 THEN "failed"
                           ELSE IF warning > 0 THEN "warning" ELSE "passed"]

\* validate_configuration: every enabled rule is executed and the report is
\* appended to the history.
validate_configuration(outcomes) ==
    /\ Len(validation_history) < MaxHistory
    /\ validation_history' =
          Append(validation_history,
                 MakeReport(Len(validation_history) + 1, outcomes))
    /\ history_reply' = NoReply
    /\ UNCHANGED notHistory

\* Python's seq[start:] for an integer start.
SliceFrom(seq, start) ==
    LET n == Len(seq)
        first == IF start < 0 THEN (IF n + start < 0 THEN 0 ELSE n + start)
                 ELSE (IF start > n THEN n ELSE start)
    IN SubSeq(seq, first + 1, n)

\* get_validation_history: `self.validation_history[-limit:]`
get_validation_history(limit) ==
    /\ history_reply' = [asked |-> TRUE, limit |-> limit,
                         reports |-> SliceFrom(validation_history, -limit)]
    /\ UNCHANGED <<validation_history, notHistory>>

HistoryNext ==
    \/ \E o \in RuleOutcomes : validate_configuration(o)
    \/ \E limit \in 0..(MaxHistory + 1) : get_validation_history(limit)

(***************************************************************************)
(* Specifications                                                          *)
(***************************************************************************)
Init ==
    /\ ResearchInit
    /\ LinkInit
    /\ WsInit
    /\ CaseInit
    /\ DashInit
    /\ HistoryInit
    /\ AdvisorInit
    /\ ManagerInit
    /\ LauncherInit
    /\ GuiInit
    /\ CrawlInit
    /\ ValidatorInit
    /\ SummaryInit
    /\ CommandInit
    /\ UploadInit

Next == ResearchNext

\* The research orchestrator.
Spec == Init /\ [][Next]_vars

\* The research orchestrator called directly and through the dashboard's
\* execute endpoint. The event loop runs every coroutine that can take a step:
\* a scheduled background task starts, and each step of a started execution
\* is taken.
ResearchLiveNext ==
    \/ \E b \in Bundles : create_research_task(b)
    \/ \E e \in ExecIds, tid \in TaskIds : ExecuteStart(e, tid)
    \/ \E e \in ExecIds, tid \in TaskIds : execute_research_task_endpoint(e, tid)
    \/ \E e \in ExecIds : BackgroundStart(e)
    \/ \E e \in ExecIds, s \in Sources : SourceFinish(e, s)
    \/ \E e \in ExecIds : GatherJoin(e)
    \/ \E e \in ExecIds : PerformValidation(e)
    \/ \E e \in ExecIds : Finish(e)

SpecResearchLive ==
    /\ Init
    /\ [][ResearchLiveNext]_vars
    /\ \A e \in ExecIds :
          /\ WF_vars(BackgroundStart(e))
          /\ WF_vars(GatherJoin(e))
          /\ WF_vars(PerformValidation(e))
          /\ WF_vars(Finish(e))
          /\ \A s \in Sources : WF_vars(SourceFinish(e, s))

\* The bulk link validator.
SpecLinks == Init /\ [][LinkNext]_vars

\* The WebSocket connections and the /research broadcast.
SpecWs == Init /\ [][WsNext]_vars

\* The troubleshooting cases.
SpecCases == Init /\ [][CaseNext]_vars

\* The dashboard API over the orchestrator and the cases.
SpecDash == Init /\ [][DashNext]_vars

\* The validation history.
SpecHistory == Init /\ [][HistoryNext]_vars

\* The troubleshooting advisor's recommendations.
SpecAdvisor == Init /\ [][AdvisorNext]_vars

\* The troubleshooting advisor's state saved to and loaded from a file.
SpecKb == Init /\ [][KbNext]_vars

\* The terminal launcher and its server child.
SpecLauncher == Init /\ [][LauncherNext]_vars

\* The desktop GUI's server start and readiness poll.
SpecGui == Init /\ [][GuiNext]_vars

\* The supervising start-up manager and its dashboard child.
SpecManager == Init /\ [][ManagerNext]_vars

\* crawl_links over every seed set and page ceiling.
SpecCrawl == Init /\ [][CrawlNext]_vars

\* _should_crawl_link over every link and parent page.
SpecShouldCrawl == Init /\ [][ShouldCrawlNext]_vars

\* Security validation of pairs of configuration documents.
SpecValidator == Init /\ [][ValidatorNext]_vars

\* Uploads through the dashboard and the integration server.
SpecUpload == Init /\ [][UploadNext]_vars

\* Executions of a `command` validation rule.
SpecCommand == Init /\ [][CommandNext]_vars

\* _generate_comprehensive_summary over every list of workbook results.
SpecSummary == Init /\ [][SummaryNext]_vars

(***************************************************************************)
(* Properties of the research orchestrator (specification Spec)            *)
(***************************************************************************)
InFileSources == {"excel", "pdf"}

SourceFiles(s, task) ==
    IF s = "excel" THEN task.excel_files
    ELSE IF s = "pdf" THEN task.pdf_files
    ELSE task.links

HasMissing(files) ==
    files.iterable /\ \E i \in DOMAIN files.items : files.items[i] = "missing"

\* The execution got past the task lookup and has ended, either way.
Ended(e) ==
    \/ execs[e].pc = "returned"
    \/ execs[e].pc = "raised" /\ execs[e].raised_in # "lookup"

ResultSlot(r, s) ==
    IF s = "excel" THEN r.excel_results
    ELSE IF s = "pdf" THEN r.pdf_results
    ELSE r.link_results

\* C1: at the step in which execute_research_task(task_id) returns without
\* raising, the task's status is "completed" and get_task_result(task_id)
\* yields a result carrying that same id.
C1_ReturnMeansCompleted ==
    [][\A e \in ExecIds :
         (execs[e].pc # "returned" /\ execs'[e].pc = "returned") =>
            LET tid == execs'[e].task_id
            IN /\ tid \in DOMAIN tasks'
               /\ tasks'[tid].status = "completed"
               /\ tid \in DOMAIN results'
               /\ results'[tid].task_id = tid]_vars

C1_Witness ==
    \E e \in ExecIds :
        /\ execs[e].pc = "returned"
        /\ execs[e].task_id \in DOMAIN results

C3_ValidationAfterAllSources ==
    \A e \in ExecIds :
        (\/ execs[e].pc \in {"validate", "synthesize", "returned"}
         \/ execs[e].pc = "raised" /\ execs[e].raised_in = "validation")
        => \A s \in Sources :
              /\ execs[e].slots[s].state = "done"
              /\ execs[e].slots[s].keys # {}

C3_Witness ==
    \E e \in ExecIds :
        /\ execs[e].pc = "validate"
        /\ \E s \in Sources : execs[e].slots[s].keys = {"error"}
        /\ \E s \in Sources : "errors" \in execs[e].slots[s].keys

\* C4: a task is "failed" only through an exception of a post-fan-out step
\* (here _perform_validation); an execution in which a source call raised and
\* no post-fan-out step did ends by returning.
C4_FailedOnlyAfterFanOut ==
    /\ \A e \in ExecIds :
          execs[e].pc = "raised" => execs[e].raised_in \in {"lookup", "validation"}
    /\ \A tid \in DOMAIN tasks :
          tasks[tid].status = "failed" =>
             \E e \in ExecIds : /\ execs[e].task_id = tid
                                /\ execs[e].pc = "raised"
                                /\ execs[e].raised_in = "validation"
    /\ \A e \in ExecIds :
          (/\ Ended(e)
           /\ \E s \in Sources : execs[e].slots[s].keys = {"error"}
           /\ ~ValidationRaises(execs[e].slots))
          => execs[e].pc = "returned"

C4_Witness ==
    \E e \in ExecIds :
        /\ execs[e].pc = "raised"
        /\ execs[e].raised_in = "validation"
        /\ tasks[execs[e].task_id].status = "failed"
        /\ \E s \in Sources : execs[e].slots[s].keys = {"error"}

(***************************************************************************)
(* Properties of the bulk link validator (specification SpecLinks)         *)
(***************************************************************************)
InFlight == {j \in DOMAIN call.reqs : call.reqs[j].state = "inflight"}

\* C5: never more than max_concurrent link checks are in flight.
C5_BoundedInFlight == Cardinality(InFlight) <= max_concurrent

C5_Witness ==
    /\ Len(call.reqs) > max_concurrent
    /\ Cardinality(InFlight) = max_concurrent
    /\ \E j \in DOMAIN call.reqs : call.reqs[j].state = "waiting"

RECURSIVE CountSuccessOrRedirect(_)
CountSuccessOrRedirect(entries) ==
    IF entries = <<>> THEN 0
    ELSE (IF Head(entries).status \in {"success", "redirect"} THEN 1 ELSE 0)
            + CountSuccessOrRedirect(Tail(entries))

\* C6: in a returned result, summary.successful is the number of entries with
\* status success or redirect, and summary.failed is total_links minus it.
C6_SummaryCounts ==
    last_result.returned =>
        /\ last_result.summary.successful =
              CountSuccessOrRedirect(last_result.successful_validations
                                       \o last_result.failed_validations)
        /\ last_result.summary.failed =
              last_result.summary.total_links - last_result.summary.successful

C6_Witness ==
    /\ last_result.returned
    /\ \E i \in DOMAIN last_result.successful_validations :
          last_result.successful_validations[i].status = "redirect"
    /\ \E i \in DOMAIN last_result.failed_validations :
          last_result.failed_validations[i].status = "invalid_format"
    /\ \E i \in DOMAIN last_result.failed_validations :
          last_result.failed_validations[i].status = "client_error"

(***************************************************************************)
(* Properties of the broadcast (specification SpecWs)                      *)
(***************************************************************************)
\* C7: when a broadcast in which a send failed ends, exactly the sockets whose
\* send failed are removed from the connection set and every other connected
\* socket was sent the message.
C7_Claimed ==
    [][(/\ bcast.pc = "iterating"
        /\ bcast'.pc # "iterating"
        /\ bcast.disconnected # {})
       => /\ websocket_connections' =
                websocket_connections \ bcast.disconnected
          /\ \A w \in websocket_connections \ bcast.disconnected :
                w \in bcast.sent]_vars

(***************************************************************************)
(* Properties of the dashboard API (specification SpecDash)                *)
(***************************************************************************)
\* C8: a request naming a research task, research result or troubleshooting
\* case that does not exist is answered with HTTP 404.
C8_Claimed ==
    (api_response.endpoint # "none" /\ ~api_response.exists)
        => api_response.code = 404

(***************************************************************************)
(* Properties of the validation history (specification SpecHistory)        *)
(***************************************************************************)
RECURSIVE Reverse(_)
Reverse(seq) ==
    IF seq = <<>> THEN <<>> ELSE Append(Reverse(Tail(seq)), Head(seq))

Min(a, b) == IF a < b THEN a ELSE b

\* The k most recently created reports, most recent first.
MostRecentFirst(history, k) ==
    Reverse(SubSeq(history, Len(history) - k + 1, Len(history)))

\* C9: get_validation_history(limit) returns exactly the min(limit, length)
\* most recently created reports, most recent first.
C9_Claimed ==
    history_reply.asked =>
        history_reply.reports =
            MostRecentFirst(validation_history,
                            Min(history_reply.limit, Len(validation_history)))

(***************************************************************************)
(* Properties of the troubleshooting cases (specification SpecCases)       *)
(***************************************************************************)
Rank(status) == CHOOSE i \in DOMAIN Lifecycle : Lifecycle[i] = status

\* C10: a case's status is always one of open, investigating, resolved,
\* closed, and no step moves a case backward in that order.
C10_Claimed ==
    [][\A c \in DOMAIN troubleshooting_cases :
          /\ \E i \in DOMAIN Lifecycle :
                Lifecycle[i] = troubleshooting_cases'[c].status
          /\ Rank(troubleshooting_cases'[c].status)
                >= Rank(troubleshooting_cases[c].status)]_vars

(***************************************************************************)
(* Properties of the troubleshooting advisor (specification SpecAdvisor)   *)
(***************************************************************************)
\* C11: every recommendation generate_recommendations produced has a
\* confidence score in the closed interval [0, 1].
C11_Claimed ==
    \A k \in DOMAIN recommendations :
        /\ recommendations[k].confidence_score.num >= 0
        /\ recommendations[k].confidence_score.num
              <= recommendations[k].confidence_score.den

\* C12: when generate_recommendations returns for a case, every one of its
\* three most similar cases above 0.3 that has a resolution is quoted by a
\* single-step recommendation whose confidence is the similarity.
C12_Claimed ==
    [][generated' # generated =>
         LET case == troubleshooting_cases[generated'.case_id]
             similar == _find_similar_cases(case, troubleshooting_cases)
         IN \A s \in DOMAIN similar :
               Truthy(troubleshooting_cases[similar[s]].resolution) =>
                  \E k \in DOMAIN generated'.recs :
                     /\ generated'.recs[k].source = "pattern_match"
                     /\ generated'.recs[k].steps =
                           <<troubleshooting_cases[similar[s]].resolution>>
                     /\ generated'.recs[k].confidence_score =
                           _calculate_case_similarity(
                               case, troubleshooting_cases[similar[s]])]_vars

(***************************************************************************)
(* Properties of the saved knowledge base (specification SpecKb)           *)
(***************************************************************************)
\* The records a dict holds, and the records a list of the file describes.
Held(dict) == {dict[i] : i \in DOMAIN dict}
FileRecords(data) == {JsonLoad(data[i]) : i \in DOMAIN data}

DeadChildReplaced ==
    (manager.pc = "loop" /\ manager'.pc = "loop" /\ processes' # processes)
        => /\ Len(processes') = Len(processes)
           /\ \A k \in DOMAIN processes' :
                 children'[processes'[k].pid] = "alive"

C16_Claimed ==
    ~(gui.failures = MaxPolls /\ gui.scheduled > 0)

(***************************************************************************)
(* Properties of the link crawler (SpecCrawl, SpecShouldCrawl)             *)
(***************************************************************************)
\* C17: crawl_links never returns more than max_pages crawled pages.
C17_Claimed ==
    crawl.pc = "returned" => Cardinality(crawl.results) <= crawl.max_pages

C19_Claimed ==
    security.validated =>
        security.literal.security_score
            < security.placeholder.security_score

(***************************************************************************)
(* Properties of the comprehensive summary (SpecSummary)                   *)
(***************************************************************************)
\* The security issues of all sheets of the workbooks that were analysed.
RECURSIVE SumSeq(_)
SumSeq(numbers) ==
    IF numbers = <<>> THEN 0 ELSE Head(numbers) + SumSeq(Tail(numbers))

RECURSIVE CriticalIssues(_)
CriticalIssues(excel_analysis) ==
    IF excel_analysis = <<>> THEN 0
    ELSE SumSeq(Head(excel_analysis).validation_results)
            + CriticalIssues(Tail(excel_analysis))

\* C20: the overall health score is 100 minus 10 for each critical security
\* issue of the analysed spreadsheets, and not below 0.
C20_Claimed ==
    summary.made =>
        summary.summary.overall_health_score
            = AtLeastZero(100 - 10 * CriticalIssues(summary.excel_analysis))

(***************************************************************************)
(* The HTTP session of the bulk link validator (SpecLinks)                 *)
(***************************************************************************)
\* C21: a session opened by a validate_links call is closed when the call has
\* ended, however it ended: between calls no session is open.
C21_SessionClosed == call.pc = "idle" => session # "open"

\* A call that opened the session has ended with an exception.
C21_Witness ==
    /\ call.pc = "idle"
    /\ calls_made = 1
    /\ ~last_result.returned
    /\ session = "closed"

\* C28: no call issues a request on a session that an earlier call closed.
C28_Claimed ==
    ~(session = "closed"
        /\ call.pc = "gather"
        /\ \E j \in DOMAIN call.reqs : call.reqs[j].state = "inflight")

(***************************************************************************)
(* Properties of the `command` rules (SpecCommand)                         *)
(***************************************************************************)
\* C22: when an execution of a command rule has ended, the temporary file it
\* created is gone, however the command ended.
C22_Claimed == command_rule.pc = "idle" => temp_dir = {}

(***************************************************************************)
(* Properties of the uploads (SpecUpload)                                  *)
(***************************************************************************)
\* C23: no two uploads write to the same path.
C23_Claimed ==
    \A i, j \in DOMAIN written : i # j => written[i] # written[j]

(***************************************************************************)
(* Life cycle of a research task (Spec, SpecResearchLive)                  *)
(***************************************************************************)
\* The status changes of the life cycle.
Lifecycle_Research ==
    {<<"pending", "running">>, <<"running", "completed">>,
     <<"running", "failed">>}

\* C24: a task's status only changes along pending -> running -> completed or
\* failed, and a completed or failed task keeps its status.
C24_Claimed ==
    [][\A tid \in DOMAIN tasks :
          \/ tasks'[tid].status = tasks[tid].status
          \/ <<tasks[tid].status, tasks'[tid].status>> \in Lifecycle_Research]_vars

\* get_task_result: `self.results.get(task_id)`, None without an entry.
ResultReturned(tid) == tid \in DOMAIN results

\* C25: get_task_result(task_id) returns a result exactly when the task's
\* status is "completed".
C25_Claimed ==
    \A tid \in DOMAIN tasks :
        ResultReturned(tid) <=> tasks[tid].status = "completed"

\* C26: a task whose execution has started eventually is completed or failed.
C26_RunningEndsCompletedOrFailed ==
    \A tid \in TaskIds :
        (tid \in DOMAIN tasks /\ tasks[tid].status = "running")
            ~> (tid \in DOMAIN tasks
                  /\ tasks[tid].status \in {"completed", "failed"})

\* After an execute request to the dashboard an execution has ended, and its
\* task is completed or failed.
C26_Witness ==
    \E e \in ExecIds, tid \in DOMAIN tasks :
        /\ execs[e].task_id = tid
        /\ execs[e].pc \in {"returned", "raised"}
        /\ execs[e].raised_in # "lookup"
        /\ api_response.endpoint = "execute_research_task"
        /\ tasks[tid].status \in {"completed", "failed"}

(***************************************************************************)
(* Counts of a validation report (SpecHistory)                             *)
(***************************************************************************)
\* C27: in every report the passed, failed and warning counts add up to
\* total_rules, and total_rules is the number of results.
C27_Claimed ==
    \A i \in DOMAIN validation_history :
        LET report == validation_history[i]
        IN /\ report.passed_rules + report.failed_rules + report.warning_rules
                 = report.total_rules
           /\ report.total_rules = Len(report.results)

(***************************************************************************)
(* Broadcast during connects and disconnects (SpecWs)                      *)
(***************************************************************************)
\* C29: a broadcast is never cut short by a socket connecting or
\* disconnecting, and the /research request that made it is not answered with
\* an error.
C29_Claimed ==
    /\ bcast.pc # "aborted"
    /\ research_response # "error_500"

(***************************************************************************)
(* Server threads of the desktop GUI (SpecGui)                             *)
(***************************************************************************)
\* C30: at most one server thread started by the GUI is alive.
C30_Claimed == gui.threads <= 1

====
